---- MODULE Spec2Model ----
(***************************************************************************)
(* Model of src/main.py: the FBX -> GLB batch converter.                   *)
(*                                                                         *)
(* Two threads of control share one queue.Queue (self.events):             *)
(*   - the Tk main thread: the "Convert All FBX" button                    *)
(*     (start_conversion_thread) and the 100 ms timer (poll_events);       *)
(*   - the batch worker thread (convert_all), one queue.put per step.      *)
(* Every queue operation is one atomic step; the steps interleave freely.  *)
(***************************************************************************)
EXTENDS Integers, Sequences, FiniteSets, TLC

\* ------------------------------------------------------------------ bounds
\* Largest number of *.fbx files in the input folder.
MaxFiles == 2
\* Largest number of presses of the convert button (calls of
\* start_conversion_thread), accepted or ignored.
MaxStarts == 2
MaxMaterials == 2
MaxTextures == 1
MaxDeps == 2

\* ttk.Progressbar maximum set by start_conversion_thread.
DefaultMaximum == 100

\* ------------------------------------------------------------------ state
VARIABLES
    \* widgets, written by the Tk main thread only
    convert_btn,        \* "normal" | "disabled"
    progress_value,     \* self.progress value
    progress_maximum,   \* self.progress maximum
    status_label,       \* [text, arg]
    polling,            \* TRUE while the main thread is inside poll_events
    \* shared
    events,             \* self.events, the queue.Queue
    convert_thread,     \* self.convert_thread: "none" | "alive" | "dead"
    \* the entry fields and the disk, as the worker reads them
    input_var,          \* what the input path names: "missing" | "file" | "dir"
    output_var,         \* what the output path names: "missing" | "file" | "dir"
    custom_text,        \* the JSON box: "blank" | "object" | "array" | "null" | "malformed"
    fbx_on_disk,        \* number of *.fbx files directly in the input folder
    \* locals of convert_all
    pc,                 \* position of the worker
    custom_data,        \* "{}" | "dict" | "list" | "None"
    fbx_files,          \* len(fbx_files)
    listed,             \* what glob yielded, in the directory's order
    fbx_list,           \* fbx_files: the names, as sorted
    i,                  \* loop index
    \* history (not program state)
    run,                \* number of workers started so far
    exited,             \* number of workers that have terminated
    start_calls,        \* number of calls of start_conversion_thread
    emitted,            \* events put by the current worker, in order
    attempted,          \* files the external converter was invoked on, in order
    result,             \* per file: "pending" | "ok" | "toolfail" | "ioerr"
    done_seen,          \* run of the last "done" handled by poll_events
    dest,               \* per file, what its .glb holds: "none" | "raw" | "transformed"
    pushed,             \* every event put on the queue, in order
    handled,            \* every event handled by poll_events, in order
    \* which histories this specification keeps: a subset of
    \* {"channel", "disk"}, fixed from the first state on
    detail,
    \* one call of convert_fbx_to_glb, from the converter's return on
    call_pc,            \* "off" | "textures" | "materials" | "extras" | "save" | "returned"
    gltf,               \* the scene object
    keep_materials,     \* parameter
    remove_textures,    \* parameter
    call_custom_data,   \* parameter custom_data: [has, bag], has = FALSE for None
    loaded,             \* the scene as GLTF2().load returned it
    given,              \* custom_data as the caller passed it
    saved,              \* what gltf.save wrote
    \* the dependency check
    dep_calls,          \* number of calls of handle_dependencies
    dep_running,        \* number of its threads that have not put their event
    dep_put             \* number of events its threads have put

ui      == <<convert_btn, progress_value, progress_maximum, status_label>>
env     == <<input_var, output_var, custom_text, fbx_on_disk>>
locals  == <<pc, custom_data, fbx_files, listed, fbx_list, i>>
history == <<run, exited, start_calls, emitted, attempted, result, done_seen,
             dest, pushed, handled>>
call    == <<call_pc, gltf, keep_materials, remove_textures, call_custom_data,
             loaded, given, saved>>
deps    == <<dep_calls, dep_running, dep_put>>
side    == <<detail, call, deps>>
vars    == <<ui, polling, events, convert_thread, env, locals, history, side>>

Keeps(h) == h \in detail

PathKinds == {"missing", "file", "dir"}
TextKinds == {"blank", "object", "array", "null", "malformed"}
Files     == 1..MaxFiles

\* One event tuple; run is the worker that put it (history only).
Evt(kind, title, msg, arg) ==
    [kind |-> kind, title |-> title, msg |-> msg, arg |-> arg, run |-> run]

Label(text, arg) == [text |-> text, arg |-> arg]

\* Path.exists(): true of a directory and of a regular file alike.
Exists(p) == p # "missing"

\* json.loads(custom_data_str): the value parsed, or the JSONDecodeError.
JsonLoads(text) ==
    CASE text = "object"    -> "dict"
      [] text = "array"     -> "list"
      [] text = "null"      -> "None"
      [] text = "malformed" -> "JSONDecodeError"

\* sorted(list(input_folder.glob("*.fbx"))): a path that is no directory
\* matches nothing.
Glob(p, n) == IF p = "dir" THEN n ELSE 0

\* File names (stems), as tuples of character codes: "a", "ab", "b".
NameList == << <<1>>, <<1, 2>>, <<2>> >>
Names == {NameList[k] : k \in DOMAIN NameList}

\* What glob may yield for a folder of n files: n distinct names, in the
\* order the directory happens to list them.
Listings(n) ==
    {s \in [1..n -> Names] : \A a, b \in 1..n : a # b => s[a] # s[b]}

\* str.__lt__ on two names of one folder, which is how Path objects of one
\* parent compare: the first differing character decides, a proper prefix
\* comes first.
RECURSIVE LexLess(_, _)
LexLess(a, b) ==
    IF b = <<>> THEN FALSE
    ELSE IF a = <<>> THEN TRUE
    ELSE IF Head(a) # Head(b) THEN Head(a) < Head(b)
    ELSE LexLess(Tail(a), Tail(b))

\* Mutant of Insert: names are ordered by length first.
RECURSIVE Insert_ByLength(_, _)
Insert_ByLength(x, s) ==
    IF s = <<>> THEN <<x>>
    ELSE IF Len(x) < Len(Head(s)) \/ (Len(x) = Len(Head(s)) /\ LexLess(x, Head(s)))
         THEN <<x>> \o s
    ELSE <<Head(s)>> \o Insert_ByLength(x, Tail(s))

\* Insert x into the sorted sequence s.
RECURSIVE Insert(_, _)
Insert(x, s) ==
    IF s = <<>> THEN <<x>>
    ELSE IF LexLess(x, Head(s)) THEN <<x>> \o s
    ELSE <<Head(s)>> \o Insert(x, Tail(s))

\* sorted(list(...))
RECURSIVE Sorted(_)
Sorted(s) == IF s = <<>> THEN <<>> ELSE Insert(Head(s), Sorted(Tail(s)))

\* self.events.put(e)
\* Mutant of Enqueue: the queue is a stack.
Enqueue_Front(q, e) == <<e>> \o q

\* queue.Queue.put on a queue of unlimited size.
Enqueue(q, e) == Append(q, e)

Put(e) ==
    /\ events' = Enqueue(events, e)
    /\ emitted' = Append(emitted, e)
    /\ pushed' = IF Keeps("channel") THEN Append(pushed, e) ELSE pushed

\* ---------------------------------------------------- the scene, as data
\* A material: its texture bindings hold a texture index, 0 for None;
\* without a pbrMetallicRoughness object the two bindings under it are 0.
MaterialKinds ==
    {[name |-> 1, pbr |-> TRUE, baseColorTexture |-> 1, metallicRoughnessTexture |-> 1,
      normalTexture |-> 1, occlusionTexture |-> 1, emissiveTexture |-> 1],
     [name |-> 2, pbr |-> TRUE, baseColorTexture |-> 0, metallicRoughnessTexture |-> 0,
      normalTexture |-> 0, occlusionTexture |-> 0, emissiveTexture |-> 0],
     [name |-> 3, pbr |-> FALSE, baseColorTexture |-> 0, metallicRoughnessTexture |-> 0,
      normalTexture |-> 1, occlusionTexture |-> 0, emissiveTexture |-> 1],
     [name |-> 4, pbr |-> TRUE, baseColorTexture |-> 1, metallicRoughnessTexture |-> 0,
      normalTexture |-> 0, occlusionTexture |-> 0, emissiveTexture |-> 0]}

\* Meshes: each a list of primitives, each primitive its material index,
\* 0 for None.
MeshKinds == {<<>>, << <<>> >>, << <<1>> >>, << <<1, 0>>, <<2>> >>}

\* extras and custom_data: None, or a dict over these keys. A loaded scene
\* holds the value 1 under a key, the caller's metadata the value 2.
Keys == {"a", "b"}
Dicts(v) == {[has |-> TRUE, bag |-> [k \in S |-> v]] : S \in SUBSET Keys}
None == [has |-> FALSE, bag |-> [k \in {} |-> 0]]

SeqsUpTo(S, n) == UNION {[1..m -> S] : m \in 0..n}

Scenes ==
    {[materials |-> ms, textures |-> [k \in 1..n |-> k], images |-> [k \in 1..n |-> k],
      meshes |-> me, extras |-> ex] :
        ms \in SeqsUpTo(MaterialKinds, MaxMaterials), n \in 0..MaxTextures,
        me \in MeshKinds, ex \in Dicts(1) \cup {None}}

NoScene == [materials |-> <<>>, textures |-> <<>>, images |-> <<>>,
            meshes |-> <<>>, extras |-> None]

\* No call of convert_fbx_to_glb is followed in detail.
NoCall ==
    /\ call_pc = "off"
    /\ gltf = NoScene
    /\ keep_materials = TRUE
    /\ remove_textures = TRUE
    /\ call_custom_data = None
    /\ loaded = NoScene
    /\ given = None
    /\ saved = NoScene

InitApp(d) ==
    /\ detail = d
    /\ dep_calls = 0
    /\ dep_running = 0
    /\ dep_put = 0
    /\ convert_btn = "normal"
    /\ progress_value = 0
    /\ progress_maximum = DefaultMaximum
    /\ status_label = Label("Idle", 0)
    /\ polling = FALSE
    /\ events = <<>>
    /\ convert_thread = "none"
    /\ input_var = "dir"
    /\ output_var = "dir"
    /\ custom_text = "object"
    /\ fbx_on_disk = 0
    /\ pc = "none"
    /\ custom_data = "{}"
    /\ fbx_files = 0
    /\ listed = <<>>
    /\ fbx_list = <<>>
    /\ i = 0
    /\ run = 0
    /\ exited = 0
    /\ start_calls = 0
    /\ emitted = <<>>
    /\ attempted = <<>>
    /\ result = [f \in Files |-> "pending"]
    /\ done_seen = 0
    /\ dest = [f \in Files |-> "none"]
    /\ pushed = <<>>
    /\ handled = <<>>

InitWith(d) == InitApp(d) /\ NoCall

Init == InitWith({})

\* ------------------------------------------------- Tk main thread: button
\* start_conversion_thread past its guard: disable the button, reset the
\* display, create and start the worker. The entry fields and the folder's
\* content at that moment are the arguments.
Launch(inp, out, txt, n) ==
    /\ convert_btn' = "disabled"
    /\ progress_value' = 0
    /\ progress_maximum' = DefaultMaximum
    /\ status_label' = Label("Preparing", 0)
    /\ convert_thread' = "alive"
    /\ pc' = "check_folders"
    /\ custom_data' = "{}"
    /\ fbx_files' = 0
    /\ listed' = <<>>
    /\ fbx_list' = <<>>
    /\ i' = 0
    /\ input_var' = inp
    /\ output_var' = out
    /\ custom_text' = txt
    /\ fbx_on_disk' = n
    /\ run' = run + 1
    /\ emitted' = <<>>
    /\ attempted' = <<>>
    /\ result' = [f \in Files |-> "pending"]
    /\ dest' = [f \in Files |-> "none"]
    /\ UNCHANGED <<polling, events, exited, done_seen, pushed, handled>>

\* The early return of start_conversion_thread.
Ignore ==
    UNCHANGED <<ui, polling, events, convert_thread, env, locals,
                run, exited, emitted, pushed, attempted, result, dest, done_seen, handled>>

\* Mutant of StartConversionThread: the is_alive() guard is missing.
StartConversionThread_NoGuard ==
    /\ convert_btn = "normal"
    /\ ~polling
    /\ start_calls < MaxStarts
    /\ start_calls' = start_calls + 1
    /\ \E inp \in PathKinds, out \in PathKinds, txt \in TextKinds,
          n \in 0..MaxFiles :
           /\ (inp # "dir" => n = 0)
           /\ Launch(inp, out, txt, n)
    /\ UNCHANGED side

\* The command of convert_btn. A disabled ttk.Button does not invoke its
\* command, and the main thread runs one callback at a time.
StartConversionThread ==
    /\ convert_btn = "normal"
    /\ ~polling
    /\ start_calls < MaxStarts
    /\ start_calls' = start_calls + 1
    /\ IF convert_thread = "alive"
       THEN Ignore
       ELSE \E inp \in PathKinds, out \in PathKinds, txt \in TextKinds,
               n \in 0..MaxFiles :
                /\ (inp # "dir" => n = 0)
                /\ Launch(inp, out, txt, n)
    /\ UNCHANGED side

\* ------------------------------------------------------ worker: convert_all
WorkerAt(p) == convert_thread = "alive" /\ pc = p

\* Mutant of CheckFolders: the return after the folder error is missing.
CheckFolders_NoReturn ==
    /\ WorkerAt("check_folders")
    /\ IF ~Exists(input_var) \/ ~Exists(output_var)
       THEN /\ Put(Evt("error", "Error", "folders", 0))
            /\ pc' = "parse_json"
       ELSE /\ pc' = "parse_json"
            /\ UNCHANGED <<events, emitted, pushed>>
    /\ UNCHANGED <<ui, polling, convert_thread, env, custom_data, fbx_files, fbx_list, listed, i,
                   run, exited, start_calls, attempted, result, dest, done_seen, handled>>
    /\ UNCHANGED side

CheckFolders ==
    /\ WorkerAt("check_folders")
    /\ IF ~Exists(input_var) \/ ~Exists(output_var)
       THEN /\ Put(Evt("error", "Error", "folders", 0))
            /\ pc' = "folders_return"
       ELSE /\ pc' = "parse_json"
            /\ UNCHANGED <<events, emitted, pushed>>
    /\ UNCHANGED <<ui, polling, convert_thread, env, custom_data, fbx_files, fbx_list, listed, i,
                   run, exited, start_calls, attempted, result, dest, done_seen, handled>>
    /\ UNCHANGED side

\* put(("done",)) then return, after the folder error.
FoldersReturn ==
    /\ WorkerAt("folders_return")
    /\ Put(Evt("done", "", "", 0))
    /\ pc' = "finally"
    /\ UNCHANGED <<ui, polling, convert_thread, env, custom_data, fbx_files, fbx_list, listed, i,
                   run, exited, start_calls, attempted, result, dest, done_seen, handled>>
    /\ UNCHANGED side

ParseMetadata ==
    /\ WorkerAt("parse_json")
    /\ IF custom_text = "blank"
       THEN /\ custom_data' = "{}"
            /\ pc' = "glob"
            /\ UNCHANGED <<events, emitted, pushed>>
       ELSE IF JsonLoads(custom_text) = "JSONDecodeError"
       THEN /\ Put(Evt("error", "Invalid JSON", "json", 0))
            /\ pc' = "json_return"
            /\ UNCHANGED custom_data
       ELSE /\ custom_data' = JsonLoads(custom_text)
            /\ pc' = "glob"
            /\ UNCHANGED <<events, emitted, pushed>>
    /\ UNCHANGED <<ui, polling, convert_thread, env, fbx_files, fbx_list, listed, i,
                   run, exited, start_calls, attempted, result, dest, done_seen, handled>>
    /\ UNCHANGED side

JsonReturn ==
    /\ WorkerAt("json_return")
    /\ Put(Evt("done", "", "", 0))
    /\ pc' = "finally"
    /\ UNCHANGED <<ui, polling, convert_thread, env, custom_data, fbx_files, fbx_list, listed, i,
                   run, exited, start_calls, attempted, result, dest, done_seen, handled>>
    /\ UNCHANGED side

GlobFiles ==
    /\ WorkerAt("glob")
    /\ fbx_files' = Glob(input_var, fbx_on_disk)
    /\ \E listing \in Listings(fbx_files') :
          /\ Keeps("disk") \/ listing = SubSeq(NameList, 1, fbx_files')
          /\ listed' = listing
          /\ fbx_list' = Sorted(listing)
    /\ IF fbx_files' = 0
       THEN /\ Put(Evt("info", "Info", "no files", 0))
            /\ pc' = "nofiles_return"
       ELSE /\ pc' = "setmax"
            /\ UNCHANGED <<events, emitted, pushed>>
    /\ UNCHANGED <<ui, polling, convert_thread, env, custom_data, i,
                   run, exited, start_calls, attempted, result, dest, done_seen, handled>>
    /\ UNCHANGED side

NoFilesReturn ==
    /\ WorkerAt("nofiles_return")
    /\ Put(Evt("done", "", "", 0))
    /\ pc' = "finally"
    /\ UNCHANGED <<ui, polling, convert_thread, env, custom_data, fbx_files, fbx_list, listed, i,
                   run, exited, start_calls, attempted, result, dest, done_seen, handled>>
    /\ UNCHANGED side

\* Mutant of EmitSetMax: the total is never declared.
EmitSetMax_NoPut ==
    /\ WorkerAt("setmax")
    /\ i' = 1
    /\ pc' = "status"
    /\ UNCHANGED <<ui, polling, events, convert_thread, env, custom_data,
                   fbx_files, fbx_list, listed, history>>
    /\ UNCHANGED side

EmitSetMax ==
    /\ WorkerAt("setmax")
    /\ Put(Evt("setmax", "", "", fbx_files))
    /\ i' = 1
    /\ pc' = "status"
    /\ UNCHANGED <<ui, polling, convert_thread, env, custom_data, fbx_files, fbx_list, listed,
                   run, exited, start_calls, attempted, result, dest, done_seen, handled>>
    /\ UNCHANGED side

EmitStatus ==
    /\ WorkerAt("status")
    /\ Put(Evt("status", "", "Processing", i))
    /\ pc' = "convert"
    /\ UNCHANGED <<ui, polling, convert_thread, env, custom_data, fbx_files, fbx_list, listed, i,
                   run, exited, start_calls, attempted, result, dest, done_seen, handled>>
    /\ UNCHANGED side

\* What the except clauses and the finally of the loop body leave: the Error
\* event of the handler that caught the exception, then on to the progress put.
JobFailed(kind, e) ==
    /\ result' = [result EXCEPT ![i] = kind]
    /\ Put(e)
    /\ pc' = "progress"
    /\ UNCHANGED dest

ConversionFailed == Evt("error", "Conversion failed", "fbx2gltf failed", i)
ProcessingError  == Evt("error", "Error", "processing", i)

\* convert_fbx_to_glb, first half: subprocess.run(..., check=True).
\* Mutant of RunConverter: a non-zero exit status is retried once.
RunConverter_Retry ==
    /\ WorkerAt("convert")
    /\ attempted' = Append(attempted, i)
    /\ \/ /\ pc' = "transform"
          /\ dest' = IF Keeps("disk") /\ output_var = "dir"
                      THEN [dest EXCEPT ![i] = "raw"] ELSE dest
          /\ UNCHANGED <<events, emitted, pushed, result>>
       \/ /\ \A k \in DOMAIN attempted : attempted[k] # i
          /\ UNCHANGED <<pc, events, emitted, pushed, result, dest>>
       \/ JobFailed("toolfail", ConversionFailed)
       \/ JobFailed("ioerr", ProcessingError)
    /\ UNCHANGED <<ui, polling, convert_thread, env, custom_data, fbx_files, fbx_list, listed, i,
                   run, exited, start_calls, done_seen, handled>>
    /\ UNCHANGED side

\* convert_fbx_to_glb, first half: subprocess.run([fbx2gltf, ...], check=True).
RunConverter ==
    /\ WorkerAt("convert")
    /\ attempted' = Append(attempted, i)
    /\ \/ /\ pc' = "transform"                       \* exit status 0
          /\ dest' = IF Keeps("disk") /\ output_var = "dir"
                      THEN [dest EXCEPT ![i] = "raw"] ELSE dest
          /\ UNCHANGED <<events, emitted, pushed, result>>
       \/ JobFailed("toolfail", ConversionFailed)    \* CalledProcessError
       \/ JobFailed("ioerr", ProcessingError)        \* OSError: no such tool
    /\ UNCHANGED <<ui, polling, convert_thread, env, custom_data, fbx_files, fbx_list, listed, i,
                   run, exited, start_calls, done_seen, handled>>
    /\ UNCHANGED side

\* Mutant of TransformScene: the exception is caught around the loop, not
\* inside it, so a failing file ends the batch.
TransformScene_Escapes ==
    /\ WorkerAt("transform")
    /\ \/ /\ output_var = "dir"
          /\ custom_data # "list"
          /\ result' = [result EXCEPT ![i] = "ok"]
          /\ dest' = IF Keeps("disk")
                      THEN [dest EXCEPT ![i] = "transformed"] ELSE dest
          /\ pc' = "progress"
          /\ UNCHANGED <<events, emitted, pushed>>
       \/ /\ result' = [result EXCEPT ![i] = "ioerr"]
          /\ Put(ProcessingError)
          /\ pc' = "complete"
          /\ UNCHANGED dest
    /\ UNCHANGED <<ui, polling, convert_thread, env, custom_data, fbx_files, fbx_list, listed, i,
                   run, exited, start_calls, attempted, done_seen, handled>>
    /\ UNCHANGED side

\* convert_fbx_to_glb, second half: load, strip, merge extras, save.
\* extras.update(custom_data) raises on a non-empty value that is no mapping,
\* and nothing can be loaded from or saved under a path that is a file.
TransformScene ==
    /\ WorkerAt("transform")
    /\ \/ /\ output_var = "dir"
          /\ custom_data # "list"
          /\ result' = [result EXCEPT ![i] = "ok"]
          /\ dest' = IF Keeps("disk")
                      THEN [dest EXCEPT ![i] = "transformed"] ELSE dest
          /\ pc' = "progress"
          /\ UNCHANGED <<events, emitted, pushed>>
       \/ JobFailed("ioerr", ProcessingError)
    /\ UNCHANGED <<ui, polling, convert_thread, env, custom_data, fbx_files, fbx_list, listed, i,
                   run, exited, start_calls, attempted, done_seen, handled>>
    /\ UNCHANGED side

\* Mutant of EmitProgress: the put sits at the end of the try body, not in
\* the finally, so a failed file reports no progress.
EmitProgress_OnSuccessOnly ==
    /\ WorkerAt("progress")
    /\ IF result[i] = "ok"
       THEN Put(Evt("progress", "", "", i))
       ELSE UNCHANGED <<events, emitted, pushed>>
    /\ IF i < fbx_files
       THEN i' = i + 1 /\ pc' = "status"
       ELSE i' = i /\ pc' = "complete"
    /\ UNCHANGED <<ui, polling, convert_thread, env, custom_data, fbx_files, fbx_list, listed,
                   run, exited, start_calls, attempted, result, dest, done_seen, handled>>
    /\ UNCHANGED side

\* finally: put(("progress", i)), then the next iteration or the loop's end.
EmitProgress ==
    /\ WorkerAt("progress")
    /\ Put(Evt("progress", "", "", i))
    /\ IF i < fbx_files
       THEN i' = i + 1 /\ pc' = "status"
       ELSE i' = i /\ pc' = "complete"
    /\ UNCHANGED <<ui, polling, convert_thread, env, custom_data, fbx_files, fbx_list, listed,
                   run, exited, start_calls, attempted, result, dest, done_seen, handled>>
    /\ UNCHANGED side

EmitComplete ==
    /\ WorkerAt("complete")
    /\ Put(Evt("status", "", "Conversion complete", 0))
    /\ pc' = "converted"
    /\ UNCHANGED <<ui, polling, convert_thread, env, custom_data, fbx_files, fbx_list, listed, i,
                   run, exited, start_calls, attempted, result, dest, done_seen, handled>>
    /\ UNCHANGED side

\* Mutant of EmitConverted: the message counts the files that succeeded.
EmitConverted_Succeeded ==
    /\ WorkerAt("converted")
    /\ Put(Evt("info", "Done", "converted",
               Cardinality({f \in 1..fbx_files : result[f] = "ok"})))
    /\ pc' = "finally"
    /\ UNCHANGED <<ui, polling, convert_thread, env, custom_data, fbx_files, fbx_list, listed, i,
                   run, exited, start_calls, attempted, result, dest, done_seen, handled>>
    /\ UNCHANGED side

EmitConverted ==
    /\ WorkerAt("converted")
    /\ Put(Evt("info", "Done", "converted", fbx_files))
    /\ pc' = "finally"
    /\ UNCHANGED <<ui, polling, convert_thread, env, custom_data, fbx_files, fbx_list, listed, i,
                   run, exited, start_calls, attempted, result, dest, done_seen, handled>>
    /\ UNCHANGED side

\* Mutant of Finally: no outer finally, so only the early returns put Done.
Finally_NoPut ==
    /\ WorkerAt("finally")
    /\ pc' = "finished"
    /\ UNCHANGED <<ui, polling, events, convert_thread, env, custom_data,
                   fbx_files, fbx_list, listed, i, history>>
    /\ UNCHANGED side

\* The outer finally: put(("done",)), on the way out of every path.
Finally ==
    /\ WorkerAt("finally")
    /\ Put(Evt("done", "", "", 0))
    /\ pc' = "finished"
    /\ UNCHANGED <<ui, polling, convert_thread, env, custom_data, fbx_files, fbx_list, listed, i,
                   run, exited, start_calls, attempted, result, dest, done_seen, handled>>
    /\ UNCHANGED side

\* convert_all has returned; the thread ends and is_alive() turns false.
WorkerExit ==
    /\ WorkerAt("finished")
    /\ convert_thread' = "dead"
    /\ exited' = exited + 1
    /\ UNCHANGED <<ui, polling, events, env, locals,
                   run, start_calls, emitted, pushed, attempted, result, dest, done_seen, handled>>
    /\ UNCHANGED side

\* -------------------------------------------------- the dependency check
\* The command of dep_btn: handle_dependencies starts a thread of its own,
\* whatever else is running.
HandleDependencies ==
    /\ ~polling
    /\ dep_calls < MaxDeps
    /\ dep_calls' = dep_calls + 1
    /\ dep_running' = dep_running + 1
    /\ UNCHANGED <<ui, polling, events, convert_thread, env, locals, history,
                   detail, call, dep_put>>

\* work(): install_dependencies returns the missing list, or raises; the
\* thread puts one event and ends.
DepEvent(kind) ==
    [kind |-> kind, title |-> "Dependencies", msg |-> kind, arg |-> 0, run |-> 0]

DepWork ==
    /\ dep_running > 0
    /\ \E kind \in {"info", "warn", "error"} :
          /\ events' = Enqueue(events, DepEvent(kind))
          /\ pushed' = IF Keeps("channel") THEN Append(pushed, DepEvent(kind))
                                           ELSE pushed
    /\ dep_running' = dep_running - 1
    /\ dep_put' = dep_put + 1
    /\ UNCHANGED <<ui, polling, convert_thread, env, locals,
                   run, exited, start_calls, emitted, attempted, result,
                   done_seen, dest, handled, detail, call, dep_calls>>

\* ------------------------------------------- Tk main thread: poll_events
\* The 100 ms timer fires and poll_events enters its loop.
PollBegin ==
    /\ ~polling
    /\ polling' = TRUE
    /\ UNCHANGED <<ui, events, convert_thread, env, locals, history>>
    /\ UNCHANGED side

\* Mutant of Handle: a done event is dropped.
Handle_DoneDropped(evt) ==
    CASE evt.kind = "setmax" ->
            /\ progress_maximum' = evt.arg
            /\ progress_value' = 0
            /\ UNCHANGED <<convert_btn, status_label, done_seen>>
      [] evt.kind = "progress" ->
            /\ progress_value' = evt.arg
            /\ UNCHANGED <<convert_btn, progress_maximum, status_label, done_seen>>
      [] evt.kind = "status" ->
            /\ status_label' = Label(evt.msg, evt.arg)
            /\ UNCHANGED <<convert_btn, progress_value, progress_maximum, done_seen>>
      [] evt.kind \in {"info", "warn", "error"} ->
            /\ progress_value' = 0
            /\ status_label' = Label("Idle", 0)
            /\ UNCHANGED <<convert_btn, progress_maximum, done_seen>>
      [] evt.kind = "done" ->
            UNCHANGED <<ui, done_seen>>

\* Mutant of Handle: dismissing a message box also enables the button.
Handle_NoticeEnables(evt) ==
    CASE evt.kind = "setmax" ->
            /\ progress_maximum' = evt.arg
            /\ progress_value' = 0
            /\ UNCHANGED <<convert_btn, status_label, done_seen>>
      [] evt.kind = "progress" ->
            /\ progress_value' = evt.arg
            /\ UNCHANGED <<convert_btn, progress_maximum, status_label, done_seen>>
      [] evt.kind = "status" ->
            /\ status_label' = Label(evt.msg, evt.arg)
            /\ UNCHANGED <<convert_btn, progress_value, progress_maximum, done_seen>>
      [] evt.kind \in {"info", "warn", "error"} ->
            /\ progress_value' = 0
            /\ status_label' = Label("Idle", 0)
            /\ convert_btn' = "normal"
            /\ UNCHANGED <<progress_maximum, done_seen>>
      [] evt.kind = "done" ->
            /\ convert_btn' = "normal"
            /\ done_seen' = evt.run
            /\ UNCHANGED <<progress_value, progress_maximum, status_label>>

\* One iteration of the loop: get_nowait() returns the head, which is handled.
Handle(evt) ==
    CASE evt.kind = "setmax" ->
            /\ progress_maximum' = evt.arg
            /\ progress_value' = 0
            /\ UNCHANGED <<convert_btn, status_label, done_seen>>
      [] evt.kind = "progress" ->
            /\ progress_value' = evt.arg
            /\ UNCHANGED <<convert_btn, progress_maximum, status_label, done_seen>>
      [] evt.kind = "status" ->
            /\ status_label' = Label(evt.msg, evt.arg)
            /\ UNCHANGED <<convert_btn, progress_value, progress_maximum, done_seen>>
      [] evt.kind \in {"info", "warn", "error"} ->
            /\ progress_value' = 0
            /\ status_label' = Label("Idle", 0)
            /\ UNCHANGED <<convert_btn, progress_maximum, done_seen>>
      [] evt.kind = "done" ->
            /\ convert_btn' = "normal"
            /\ done_seen' = evt.run
            /\ UNCHANGED <<progress_value, progress_maximum, status_label>>

PollTake ==
    /\ polling
    /\ events # <<>>
    /\ events' = Tail(events)
    /\ Handle(Head(events))
    /\ handled' = IF Keeps("channel") THEN Append(handled, Head(events))
                                       ELSE handled
    /\ UNCHANGED <<polling, convert_thread, env, locals,
                   run, exited, start_calls, emitted, pushed, attempted, result, dest>>
    /\ UNCHANGED side

\* get_nowait() raises queue.Empty: the loop ends and the timer is re-armed.
PollEmpty ==
    /\ polling
    /\ events = <<>>
    /\ polling' = FALSE
    /\ UNCHANGED <<ui, events, convert_thread, env, locals, history>>
    /\ UNCHANGED side

\* ---------------------------------------------------------- specification
Worker ==
    \/ CheckFolders \/ FoldersReturn
    \/ ParseMetadata \/ JsonReturn
    \/ GlobFiles \/ NoFilesReturn
    \/ EmitSetMax \/ EmitStatus
    \/ RunConverter \/ TransformScene
    \/ EmitProgress \/ EmitComplete \/ EmitConverted
    \/ Finally \/ WorkerExit

Next ==
    \/ StartConversionThread
    \/ Worker
    \/ PollBegin \/ PollTake \/ PollEmpty

Spec == Init /\ [][Next]_vars

\* The application with the channel in view: every put and every handled
\* event is recorded, the dependency check runs beside one batch.
ChanBatches ==
    {<<"missing", "dir", "object", 0>>, <<"dir", "dir", "malformed", 0>>}
    \cup {<<"dir", "dir", "object", n>> : n \in 0..1}

StartChanBatch ==
    /\ StartConversionThread
    /\ env' \in ChanBatches
    /\ run' <= 1

NextChan ==
    \/ StartChanBatch
    \/ Worker
    \/ HandleDependencies \/ DepWork
    \/ PollBegin \/ PollTake \/ PollEmpty

SpecChan == InitWith({"channel"}) /\ [][NextChan]_vars

\* The application under its scheduling: a started thread keeps running and
\* every converter call returns, and the timer that poll_events re-arms in
\* its finally keeps firing.
Poll == PollBegin \/ PollTake \/ PollEmpty

LiveBatches ==
    {<<"missing", "dir", "object", 0>>, <<"dir", "dir", "malformed", 0>>,
     <<"dir", "dir", "object", 0>>, <<"dir", "dir", "object", MaxFiles>>}

StartLiveBatch ==
    /\ StartConversionThread
    /\ env' \in LiveBatches

NextLive ==
    \/ StartLiveBatch
    \/ Worker
    \/ PollBegin \/ PollTake \/ PollEmpty

SpecLive ==
    /\ Init
    /\ [][NextLive]_vars
    /\ WF_vars(Worker)
    /\ WF_vars(Poll)

\* ------------------------------------- convert_fbx_to_glb on a loaded scene
\* Mutant of StripTextures: only the bindings under pbrMetallicRoughness
\* are cleared.
StripTextures_PbrOnly(g) ==
    [g EXCEPT
        !.materials = [k \in DOMAIN g.materials |->
            IF g.materials[k].pbr
            THEN [g.materials[k] EXCEPT !.baseColorTexture = 0,
                                        !.metallicRoughnessTexture = 0]
            ELSE g.materials[k]],
        !.textures = <<>>,
        !.images = <<>>]

\* The body of "if remove_textures".
StripTextures(g) ==
    [g EXCEPT
        !.materials = [k \in DOMAIN g.materials |->
            LET mat == g.materials[k]
                pmr == IF mat.pbr
                       THEN [mat EXCEPT !.baseColorTexture = 0,
                                        !.metallicRoughnessTexture = 0]
                       ELSE mat
            IN  [pmr EXCEPT !.normalTexture = 0,
                            !.occlusionTexture = 0,
                            !.emissiveTexture = 0]],
        !.textures = <<>>,
        !.images = <<>>]

\* Mutant of StripMaterials: the list is emptied, the primitives keep
\* their indices.
StripMaterials_ListOnly(g) == [g EXCEPT !.materials = <<>>]

\* The body of "if not keep_materials".
StripMaterials(g) ==
    [g EXCEPT
        !.meshes = [m \in DOMAIN g.meshes |->
                        [p \in DOMAIN g.meshes[m] |-> 0]],
        !.materials = <<>>]

\* Mutant of MergeExtras: keys the scene already has keep their value.
MergeExtras_KeepExisting(g, c) ==
    IF c.has /\ DOMAIN c.bag # {}
    THEN LET e == IF g.extras.has THEN g.extras.bag ELSE None.bag
         IN  [g EXCEPT !.extras =
                 [has |-> TRUE,
                  bag |-> [k \in DOMAIN e \cup DOMAIN c.bag |->
                              IF k \in DOMAIN e THEN e[k] ELSE c.bag[k]]]]
    ELSE g

\* "if custom_data:" holds for a dict that is not empty; extras is created
\* when None; dict.update overwrites and adds, and leaves its argument.
MergeExtras(g, c) ==
    IF c.has /\ DOMAIN c.bag # {}
    THEN LET e == IF g.extras.has THEN g.extras.bag ELSE None.bag
         IN  [g EXCEPT !.extras =
                 [has |-> TRUE,
                  bag |-> [k \in DOMAIN e \cup DOMAIN c.bag |->
                              IF k \in DOMAIN c.bag THEN c.bag[k] ELSE e[k]]]]
    ELSE g

CallStep(from, to, g) ==
    /\ call_pc = from
    /\ call_pc' = to
    /\ gltf' = g
    /\ UNCHANGED <<keep_materials, remove_textures, call_custom_data, loaded, given>>
    /\ UNCHANGED <<ui, polling, events, convert_thread, env, locals, history,
                   detail, deps>>

RemoveTextures ==
    /\ CallStep("textures", "materials",
                IF remove_textures THEN StripTextures(gltf) ELSE gltf)
    /\ UNCHANGED saved

RemoveMaterials ==
    /\ CallStep("materials", "extras",
                IF ~keep_materials THEN StripMaterials(gltf) ELSE gltf)
    /\ UNCHANGED saved

UpdateExtras ==
    /\ CallStep("extras", "save", MergeExtras(gltf, call_custom_data))
    /\ UNCHANGED saved

Save ==
    /\ CallStep("save", "returned", gltf)
    /\ saved' = gltf

\* convert_fbx_to_glb called on its own, the converter having written a
\* scene that load returned: any scene, any options, any metadata dict.
InitCall ==
    /\ InitApp({})
    /\ call_pc = "textures"
    /\ loaded \in Scenes
    /\ gltf = loaded
    /\ keep_materials \in BOOLEAN
    /\ remove_textures \in BOOLEAN
    /\ given \in Dicts(2) \cup {None}
    /\ call_custom_data = given
    /\ saved = NoScene

NextCall == RemoveTextures \/ RemoveMaterials \/ UpdateExtras \/ Save

SpecCall == InitCall /\ [][NextCall]_vars

\* The batch with the disk in view: the directory lists the files in any
\* order and under any names, and each destination file is followed. The
\* folders and the metadata are fixed to one batch per path through
\* convert_all.
DiskBatches ==
    {<<"missing", "dir", "object", 0>>, <<"dir", "dir", "malformed", 0>>}
    \cup {<<"dir", "dir", "object", n>> : n \in 0..MaxFiles}

\* One batch is followed from the start of the application; a click while
\* it runs is still possible.
StartDiskBatch ==
    /\ StartConversionThread
    /\ env' \in DiskBatches
    /\ run' <= 1

NextDisk ==
    \/ StartDiskBatch
    \/ Worker
    \/ PollBegin \/ PollTake \/ PollEmpty

SpecDisk == InitWith({"disk"}) /\ [][NextDisk]_vars

\* ----------------------------------------------------- reading the history
Kinds(s, k) == SelectSeq(s, LAMBDA e : e.kind = k)
Count(s, k) == Len(Kinds(s, k))

\* convert_all has returned: emitted is everything its run put.
Finished == run > 0 /\ pc = "finished"

\* The per-file status lines, as opposed to "Conversion complete".
IsFileStatus(e) == e.kind = "status" /\ e.msg = "Processing"

FailedFiles == {f \in 1..fbx_files : result[f] \in {"toolfail", "ioerr"}}

\* Where job f of the current run stands: the converter is running from the
\* call of convert_fbx_to_glb, the transform from the converter's return.
JobState(f) ==
    IF result[f] = "ok" THEN "Succeeded"
    ELSE IF result[f] \in {"toolfail", "ioerr"} THEN "Failed"
    ELSE IF f = i /\ pc = "convert" THEN "Converting"
    ELSE IF f = i /\ pc = "transform" THEN "Transforming"
    ELSE "Pending"

JobSteps ==
    {<<"Pending", "Converting">>, <<"Converting", "Transforming">>,
     <<"Converting", "Failed">>, <<"Transforming", "Succeeded">>,
     <<"Transforming", "Failed">>}

FolderMissing == input_var = "missing" \/ output_var = "missing"

\* ------------------------------------------------------------------ claims

\* C1: every run of convert_all emits exactly one Done event, on the path
\* that processes files and on each early-exit path.
C1_ExactlyOneDone ==
    Finished => Count(emitted, "done") = 1

\* C2: the last event a run puts is Done, and nothing but Done follows the
\* run's Done in the order of its puts.
C2_DoneIsLast ==
    /\ \A j, k \in DOMAIN emitted :
          (j < k /\ emitted[j].kind = "done") => emitted[k].kind = "done"
    /\ Finished => /\ emitted # <<>>
                   /\ emitted[Len(emitted)].kind = "done"

C2_Witness ==
    /\ Finished
    /\ Count(emitted, "progress") >= 2
    /\ Count(emitted, "error") >= 1

\* C3: a run that resolved N >= 1 files puts exactly N Progress events, with
\* the values 1, 2, ..., N in that order, whatever failed, and N is the total
\* its SetMax declared.
C3_ProgressOneToN ==
    LET p == Kinds(emitted, "progress")
        m == Kinds(emitted, "setmax")
    IN  /\ \A k \in DOMAIN p : p[k].arg = k
        /\ (Finished /\ fbx_files >= 1) =>
              /\ fbx_files = fbx_on_disk
              /\ Len(p) = fbx_on_disk
              /\ Len(m) = 1
              /\ m[1].arg = Len(p)

C3_Witness ==
    /\ Finished
    /\ fbx_files >= 2
    /\ result[1] = "toolfail"
    /\ result[2] = "ok"

\* C4: a run that resolved N >= 1 files puts exactly one SetMax, before every
\* Progress and every per-file Status; an early-exit run (a folder missing,
\* metadata that does not parse, no file) puts no SetMax and no Progress.
C4_SetMaxFirst ==
    LET m == Kinds(emitted, "setmax")
    IN  /\ Len(m) <= 1
        /\ \A k \in DOMAIN emitted :
              (emitted[k].kind = "progress" \/ IsFileStatus(emitted[k])) =>
                 \E j \in 1..(k - 1) : emitted[j].kind = "setmax"
        /\ (Finished /\ ~FolderMissing /\ custom_text # "malformed"
                     /\ input_var = "dir" /\ fbx_on_disk >= 1) => Len(m) = 1
        /\ (Finished /\ (FolderMissing \/ custom_text = "malformed"
                         \/ input_var # "dir" \/ fbx_on_disk = 0)) =>
              /\ Len(m) = 0
              /\ Count(emitted, "progress") = 0

C4_Witness ==
    /\ Finished
    /\ run = 2
    /\ Count(emitted, "setmax") = 1
    /\ Count(emitted, "progress") = 2

\* C5: when exactly one file k of the N fails (the converter exits non-zero
\* or load/transform/save raises), the converter is still run on all N files
\* in order, the run puts exactly one Error and it names file k, every other
\* file is converted, and the run closes as a completed batch.
C5_PerFileIsolation ==
    (Finished /\ fbx_files >= 1 /\ Cardinality(FailedFiles) = 1) =>
        LET k   == CHOOSE f \in FailedFiles : TRUE
            err == Kinds(emitted, "error")
            st  == SelectSeq(emitted, IsFileStatus)
        IN  /\ attempted = [f \in 1..fbx_on_disk |-> f]
            /\ Len(st) = fbx_on_disk
            /\ \A f \in DOMAIN st : st[f].arg = f
            /\ Len(err) = 1
            /\ err[1].arg = k
            /\ \A f \in 1..fbx_on_disk : f # k => result[f] = "ok"
            /\ \E n \in DOMAIN emitted : emitted[n].msg = "converted"

C5_Witness ==
    /\ Finished
    /\ fbx_files >= 2
    /\ result[1] = "ioerr"
    /\ result[2] = "ok"

\* C6: at most one batch worker is alive at any time, and a call of
\* start_conversion_thread while the worker is alive changes nothing: no
\* worker is created, no event is put, button and display stay as they were.
C6_SecondStartIsNoOp ==
    /\ [](run - exited <= 1)
    /\ [][(start_calls' # start_calls /\ convert_thread = "alive") =>
             UNCHANGED <<ui, polling, events, convert_thread, env, locals,
                         run, exited, emitted, attempted, result, done_seen>>]_vars

C6_Witness ==
    /\ start_calls > run
    /\ convert_thread = "alive"

\* C7: from the start of a batch the convert button stays disabled until the
\* Done of that very batch is handled: a Done that an earlier run left in the
\* queue never enables it.
C7_IdleOnlyAfterOwnDone ==
    (run > 0 /\ convert_btn = "normal") => done_seen = run

\* C8: validation is ordered folders, metadata, file set, and the first
\* failure wins: a missing folder yields exactly the folder Error whatever
\* the metadata; metadata that does not parse yields exactly the metadata
\* Error whatever the file set; no file yields exactly one Info and no Error;
\* in all three the converter is never invoked.
C8_FirstFailureWins ==
    Finished =>
        LET err  == Kinds(emitted, "error")
            info == Kinds(emitted, "info")
        IN  /\ FolderMissing =>
                  /\ Len(err) = 1 /\ err[1].msg = "folders"
                  /\ info = <<>>
                  /\ attempted = <<>>
            /\ (~FolderMissing /\ custom_text = "malformed") =>
                  /\ Len(err) = 1 /\ err[1].msg = "json"
                  /\ info = <<>>
                  /\ attempted = <<>>
            /\ (~FolderMissing /\ custom_text # "malformed"
                  /\ input_var = "dir" /\ fbx_on_disk = 0) =>
                  /\ err = <<>>
                  /\ Len(info) = 1 /\ info[1].msg = "no files"
                  /\ attempted = <<>>

C8_Witness ==
    /\ Finished
    /\ input_var = "missing"
    /\ custom_text = "malformed"
    /\ Count(emitted, "error") = 1

\* C9: input and output must both be directories: when either path is
\* missing or names a regular file, the run puts the folder Error and the
\* converter is never invoked.
C9_FoldersMustBeDirectories ==
    (Finished /\ (input_var # "dir" \/ output_var # "dir")) =>
        LET err == Kinds(emitted, "error")
        IN  /\ Len(err) = 1 /\ err[1].msg = "folders"
            /\ attempted = <<>>

\* C10: non-blank metadata must parse as a JSON object: valid JSON that is no
\* object yields exactly one metadata Error and the converter is never
\* invoked; blank text yields no metadata Error.
C10_MetadataMustBeObject ==
    (Finished /\ input_var = "dir" /\ output_var = "dir") =>
        LET err == Kinds(emitted, "error")
        IN  /\ custom_text \in {"array", "null"} =>
                  /\ Len(err) = 1 /\ err[1].msg = "json"
                  /\ attempted = <<>>
            /\ custom_text = "blank" =>
                  \A n \in DOMAIN err : err[n].msg # "json"

\* C16: every destination file a run leaves is the scene after the
\* transform; none still holds the converter's untransformed output, also
\* when load, transform or save failed after the converter succeeded.
C16_NoRawDestination ==
    Finished => \A f \in 1..fbx_files : dest[f] # "raw"

\* C18: the run puts, for each file in turn, Status(i), then at most one
\* Error for file i, then Progress(i), and only then Status(i+1); and the
\* files are taken in lexicographically sorted order of their names.
C18_PerJobOrder ==
    /\ \A k \in DOMAIN emitted :
          LET e == emitted[k]
              prev == emitted[k - 1]
          IN  /\ IsFileStatus(e) =>
                    /\ k > 1
                    /\ \/ prev.kind = "setmax" /\ e.arg = 1
                       \/ prev.kind = "progress" /\ e.arg = prev.arg + 1
              /\ (e.kind = "error" /\ e.arg > 0) =>
                    /\ k > 1
                    /\ IsFileStatus(prev) /\ prev.arg = e.arg
              /\ e.kind = "progress" =>
                    /\ k > 1
                    /\ \/ IsFileStatus(prev)
                       \/ prev.kind = "error"
                    /\ prev.arg = e.arg
    /\ fbx_files >= 1 =>
          /\ Len(fbx_list) = fbx_on_disk
          /\ {fbx_list[k] : k \in DOMAIN fbx_list} = {listed[k] : k \in DOMAIN listed}
          /\ \A a, b \in DOMAIN fbx_list :
                a < b => \E n \in 1..Len(fbx_list[a]) + 1 :
                    /\ \A m \in 1..(n - 1) : fbx_list[a][m] = fbx_list[b][m]
                    /\ n <= Len(fbx_list[b])
                    /\ n <= Len(fbx_list[a]) => fbx_list[a][n] < fbx_list[b][n]
          /\ \A k \in DOMAIN attempted : attempted[k] = k

C18_Witness ==
    /\ Finished
    /\ listed = << <<2>>, <<1, 2>> >>
    /\ fbx_list = << <<1, 2>>, <<2>> >>
    /\ result[1] = "toolfail"
    /\ result[2] = "ok"

\* C17: within a run each job moves only forward through Pending,
\* Converting, Transforming, then Succeeded or Failed; job i+1 leaves
\* Pending only after job i has ended; a job whose converter exits non-zero
\* goes from Converting directly to Failed; and the converter is invoked
\* exactly once per job.
C17_JobStateMachine ==
    /\ [](Finished /\ fbx_files >= 1 =>
            /\ attempted = [k \in 1..fbx_files |-> k]
            /\ \A f \in 1..fbx_files : JobState(f) \in {"Succeeded", "Failed"})
    /\ [][run' = run =>
            /\ \A f \in Files :
                  /\ JobState(f)' # JobState(f) =>
                        <<JobState(f), JobState(f)'>> \in JobSteps
                  /\ (JobState(f) = "Pending" /\ JobState(f)' # "Pending") =>
                        \A g \in 1..(f - 1) :
                            JobState(g) \in {"Succeeded", "Failed"}
                  /\ (result'[f] = "toolfail" /\ result[f] # "toolfail") =>
                        JobState(f) = "Converting"
            /\ attempted' # attempted =>
                  /\ attempted' = Append(attempted, i)
                  /\ JobState(i) = "Converting"
                  /\ \A k \in DOMAIN attempted : attempted[k] # i]_vars

C17_Witness ==
    /\ Finished
    /\ fbx_files = 2
    /\ attempted = <<1, 2>>
    /\ result[1] = "toolfail"
    /\ result[2] = "ok"

\* C19: a run that resolved N >= 1 files ends with Progress(N),
\* Status("Conversion complete"), one Info carrying N, Done, in that order
\* and with nothing in between, whatever the per-file outcomes; N is the
\* number of files attempted.
C19_ClosingSequence ==
    /\ \A k \in DOMAIN emitted :
          (emitted[k].kind = "progress" /\ emitted[k].arg = fbx_files) =>
              LET rest == SubSeq(emitted, k + 1, Len(emitted))
                  closing == <<Evt("status", "", "Conversion complete", 0),
                               Evt("info", "Done", "converted", fbx_files),
                               Evt("done", "", "", 0)>>
              IN  /\ Len(rest) <= 3
                  /\ rest = SubSeq(closing, 1, Len(rest))
    /\ (Finished /\ fbx_files >= 1) =>
          /\ Len(emitted) >= 4
          /\ emitted[Len(emitted) - 3].kind = "progress"
          /\ emitted[Len(emitted) - 3].arg = fbx_files
          /\ emitted[Len(emitted) - 1].kind = "info"
          /\ emitted[Len(emitted) - 1].arg = Len(attempted)
          /\ Count(emitted, "info") = 1

C19_Witness ==
    /\ Finished
    /\ fbx_files = 2
    /\ FailedFiles = {1, 2}
    /\ emitted[Len(emitted) - 1].kind = "info"
    /\ emitted[Len(emitted) - 1].arg = 2

\* None of the five texture bindings of a material is set.
Unbound(mat) ==
    /\ mat.baseColorTexture = 0
    /\ mat.metallicRoughnessTexture = 0
    /\ mat.normalTexture = 0
    /\ mat.occlusionTexture = 0
    /\ mat.emissiveTexture = 0

TexturesDone == call_pc \in {"materials", "extras", "save", "returned"}
MaterialsDone == call_pc \in {"extras", "save", "returned"}
Written == IF call_pc = "returned" THEN saved ELSE gltf

\* C11: with removeTextures the saved scene has no textures and no images
\* and each remaining material has its five texture bindings unset, the
\* materials kept in number and order when keepMaterials; without
\* removeTextures textures, images and bindings are as loaded.
C11_RemoveTextures ==
    TexturesDone =>
        /\ remove_textures =>
              /\ Written.textures = <<>>
              /\ Written.images = <<>>
              /\ \A k \in DOMAIN Written.materials : Unbound(Written.materials[k])
              /\ (keep_materials \/ ~MaterialsDone) =>
                    /\ Len(Written.materials) = Len(loaded.materials)
                    /\ \A k \in DOMAIN Written.materials :
                          /\ Written.materials[k].name = loaded.materials[k].name
                          /\ Written.materials[k].pbr = loaded.materials[k].pbr
        /\ ~remove_textures =>
              /\ Written.textures = loaded.textures
              /\ Written.images = loaded.images
              /\ (keep_materials \/ ~MaterialsDone) =>
                    Written.materials = loaded.materials

C11_Witness ==
    /\ call_pc = "returned"
    /\ remove_textures
    /\ keep_materials
    /\ Len(loaded.textures) >= 1
    /\ Len(loaded.materials) = 2
    /\ loaded.materials[1].name = 3
    /\ loaded.materials[2].name = 1
    /\ saved.textures = <<>>

\* C12: with keepMaterials false the saved scene has no materials and no
\* primitive refers to one, whatever removeTextures is, and the materials
\* are stripped after the textures; with keepMaterials true no material
\* and no primitive's reference is removed.
C12_KeepMaterials ==
    /\ ~TexturesDone =>
          /\ gltf.materials = loaded.materials
          /\ gltf.meshes = loaded.meshes
    /\ (TexturesDone /\ ~MaterialsDone) => gltf.meshes = loaded.meshes
    /\ MaterialsDone =>
          /\ DOMAIN Written.meshes = DOMAIN loaded.meshes
          /\ \A m \in DOMAIN Written.meshes :
                DOMAIN Written.meshes[m] = DOMAIN loaded.meshes[m]
          /\ ~keep_materials =>
                /\ Written.materials = <<>>
                /\ \A m \in DOMAIN Written.meshes :
                      \A p \in DOMAIN Written.meshes[m] : Written.meshes[m][p] = 0
          /\ keep_materials =>
                /\ Len(Written.materials) = Len(loaded.materials)
                /\ Written.meshes = loaded.meshes

C12_Witness ==
    /\ call_pc = "returned"
    /\ ~keep_materials
    /\ ~remove_textures
    /\ Len(loaded.materials) = 2
    /\ loaded.meshes = << <<1, 0>>, <<2>> >>
    /\ saved.meshes = << <<0, 0>>, <<0>> >>
    /\ Len(saved.textures) >= 1

\* C13: with non-empty metadata C the saved extras hold every key of C
\* with C's value and every other key of the loaded extras E with E's
\* value; with empty or absent C the extras are as loaded, absent
\* included; and C itself is never modified.
C13_MergeExtras ==
    /\ call_custom_data = given
    /\ call_pc \in {"textures", "materials", "extras"} => gltf.extras = loaded.extras
    /\ call_pc \in {"save", "returned"} =>
          IF given.has /\ DOMAIN given.bag # {}
          THEN /\ Written.extras.has
               /\ DOMAIN Written.extras.bag =
                     DOMAIN loaded.extras.bag \cup DOMAIN given.bag
               /\ \A k \in DOMAIN given.bag : Written.extras.bag[k] = given.bag[k]
               /\ \A k \in DOMAIN loaded.extras.bag \ DOMAIN given.bag :
                     Written.extras.bag[k] = loaded.extras.bag[k]
          ELSE Written.extras = loaded.extras

C13_Witness ==
    /\ call_pc = "returned"
    /\ DOMAIN given.bag = {"a"}
    /\ DOMAIN loaded.extras.bag = {"a", "b"}
    /\ saved.extras.bag["a"] = 2
    /\ saved.extras.bag["b"] = 1

\* The events of the dependency check, among those of a sequence.
FromDeps(q) == SelectSeq(q, LAMBDA e : e.title = "Dependencies")

\* The worker stands at a statement that puts an event.
AtPut ==
    /\ convert_thread = "alive"
    /\ pc \in {"folders_return", "json_return", "nofiles_return", "setmax",
               "status", "progress", "complete", "converted", "finally"}

\* C14: the events handled are the events put, in the order of the puts,
\* each once, whatever the interleaving of the batch worker, the
\* dependency threads and the polls; a put is never held up by what is
\* still queued, and a poll on an empty queue returns.
C14_Fifo ==
    /\ pushed = handled \o events
    /\ AtPut => ENABLED Worker
    /\ dep_running > 0 => ENABLED DepWork
    /\ (polling /\ events = <<>>) => ENABLED PollEmpty

C14_Witness ==
    /\ Len(handled) >= 3
    /\ Len(events) >= 2
    /\ handled[Len(handled)].title = "Dependencies"
    /\ handled[1].title # "Dependencies"
    /\ events[1].title # "Dependencies"
    /\ FromDeps(events) # <<>>

\* C20: every call of handle_dependencies leads to exactly one event, an
\* Info, Warning or Error; a step of the dependency check and the handling
\* of its event leave the convert button and the batch worker as they are.
C20_DependenciesApart ==
    /\ [](/\ dep_calls = dep_running + dep_put
          /\ Len(FromDeps(pushed)) = dep_put
          /\ \A k \in DOMAIN pushed :
                pushed[k].title = "Dependencies" =>
                    pushed[k].kind \in {"info", "warn", "error"})
    /\ [][(\/ dep_calls' # dep_calls
           \/ dep_put' # dep_put
           \/ /\ Len(handled') = Len(handled) + 1
              /\ handled'[Len(handled')].title = "Dependencies")
          => UNCHANGED <<convert_btn, convert_thread, pc, run, exited>>]_vars

C20_Witness ==
    /\ convert_thread = "alive"
    /\ convert_btn = "disabled"
    /\ pc = "convert"
    /\ handled # <<>>
    /\ handled[Len(handled)].title = "Dependencies"
    /\ dep_put = 2
    /\ dep_running = 0

\* The worker has ended, the consumer is idle and a press of the convert
\* button starts a batch.
Restartable ==
    /\ convert_thread = "dead"
    /\ convert_btn = "normal"
    /\ ~polling

\* C15: every started batch eventually has put Done, as its last event,
\* and its worker ends; and the consumer eventually is idle again with the
\* convert button enabled, on the success path, on every early exit and
\* when every file fails.
C15_BatchEnds ==
    /\ (convert_thread = "alive") ~>
          /\ Finished
          /\ emitted # <<>>
          /\ emitted[Len(emitted)].kind = "done"
    /\ (convert_thread = "alive") ~> Restartable

C15_Witness ==
    /\ Restartable
    /\ run = 2
    /\ fbx_files = 2
    /\ FailedFiles = {1, 2}
    /\ events = <<>>
    /\ done_seen = 2

====
